---- MODULE Spec2Model ----
(***************************************************************************)
(* Recording lifecycle coordinator of the meeting recorder extension.      *)
(*                                                                         *)
(* Two coordinators exist in the repository:                               *)
(*   - the pause-capable RecordingManager (services/recording-manager.js,  *)
(*     found in src/ui/popup.js:324-632) driven by BackgroundService       *)
(*     (src/unnamed/part_001);  specification Spec;                        *)
(*   - the RecordingManager of src/background.js with its onMessage        *)
(*     listener;  specification SpecBG.                                    *)
(* Every async function is cut at its awaits: one action per synchronous   *)
(* stretch of code, so that handlers interleave as the event loop allows.  *)
(***************************************************************************)
EXTENDS Integers, Sequences, FiniteSets, TLC

\* ---------------------------------------------------------------- bounds
MaxClock == 2
MaxReq == 3
MaxSeqReq == 4
MaxProcs == 2
MaxHandlers == 1
MaxTabs == 2
MaxSync == 2
MaxSyncCalls == 2
MaxSyncReq == 2
MaxStored == 2
MaxDelCalls == 1
MaxLogouts == 1
MaxFetches == 3

\* ------------------------------------------------------- program constants
RecordingsCap == 100
LocalCap == 50
BgLocalCap == 10
DisplayCap == 10

NULL == -1

VARIABLES
    isRecording,    \* RecordingManager.isRecording
    isPaused,       \* RecordingManager.isPaused
    startTime,      \* RecordingManager.startTime (NULL or a clock value)
    pausedTime,     \* RecordingManager.pausedTime
    offscreen,      \* an OFFSCREEN_DOCUMENT context exists
    now,            \* wall clock, whole seconds
    procs,          \* in-flight request handlers, one record per slot
    hprocs,         \* in-flight completion handlers, one record per slot
    outbox,         \* background.js: fire-and-forget commands not yet delivered
    cmds,           \* commands the Capture Surface has received, in order
    capture,        \* Capture Surface: "inactive" | "recording" | "paused"
    captureSeq,     \* Capture Surface: number of captures started so far
    inbox,          \* messages emitted by the Capture Surface, not yet handled
    server,         \* Remote API: payloads uploaded so far, in order
    recordings,     \* chrome.storage.local 'recordings'
    localRecordings,\* chrome.storage.local 'localRecordings'
    notifications,  \* titles passed to chrome.notifications.create, in order
    badge,          \* chrome.action badge text
    bcast,          \* messages broadcast to the tabs, in order
    ghost,          \* history the properties speak about (never read by the code)
    env,            \* which coordinator runs, and the tabs that have a listener
    tabLog,         \* every chrome.tabs.sendMessage call, in order, with its outcome
    syncs,          \* in-flight syncPendingRecordings / deleteRecording calls
    popup           \* PopupController of src/popup.js: its loadRecordings cycle

vars == <<isRecording, isPaused, startTime, pausedTime, offscreen, now, procs,
          hprocs, outbox, cmds, capture, captureSeq, inbox, server, recordings,
          localRecordings, notifications, badge, bcast, ghost, env, tabLog,
          syncs, popup>>

sessionVars == <<isRecording, isPaused, startTime, pausedTime>>
storeVars == <<server, recordings, localRecordings>>
surfaceVars == <<cmds, capture, captureSeq, inbox>>

Procs == 1..MaxProcs
HProcs == 1..MaxHandlers
Tabs == 1..MaxTabs
SyncProcs == 1..MaxSync

\* capture options an observer may send (includeScreen, includeAudio)
BothOptions == [includeScreen |-> TRUE, includeAudio |-> TRUE]
NoOptions == [includeScreen |-> FALSE, includeAudio |-> FALSE]
Options == {BothOptions, NoOptions}

IdleProc == [pc |-> "idle", op |-> "none", options |-> NoOptions, res |-> "none"]
IdleHProc == [pc |-> "idle", blob |-> 0, duration |-> 0, startTime |-> NULL,
              list |-> <<>>, rec |-> <<>>]
IdleSync == [pc |-> "idle", op |-> "none", list |-> <<>>, recs |-> <<>>,
             pending |-> <<>>, i |-> 0, synced |-> 0, uploaded |-> 0,
             rec |-> <<>>, id |-> <<>>, ret |-> "none"]

InFlight == {p \in Procs : procs[p].pc # "idle"}

\* the lowest free handler slot takes the next request
FreeProc(p) == /\ procs[p].pc = "idle"
               /\ \A q \in Procs : q < p => procs[q].pc # "idle"
               /\ ghost.serial => InFlight = {}
               /\ ghost.requests < ghost.limit
FreeHProc(h) == /\ hprocs[h].pc = "idle"
                /\ \A q \in HProcs : q < h => hprocs[q].pc # "idle"

Cmd(action, o) == [action |-> action, options |-> o]
Msg(action, data) == [action |-> action, data |-> data]

\* ------------------------------------------------- history (ghost) fields
\* the scenario start, pause, resume, stop, one request at a time
Scenario == << <<"req", "start">>, <<"ok", "start">>, <<"req", "pause">>, <<"ok", "pause">>,
               <<"req", "resume">>, <<"ok", "resume">>, <<"req", "stop">>, <<"ok", "stop">> >>

ScenNext(s, ev, op, o) ==
    IF s >= 0 /\ s < Len(Scenario) /\ Scenario[s + 1] = <<ev, op>>
       /\ (ev = "req" /\ op = "start" => o = BothOptions)
    THEN s + 1 ELSE -1

\* state the transition table gives to an accepted request
TableNext(op) ==
    CASE op = "start" -> "Recording"
      [] op = "pause" -> "Paused"
      [] op = "resume" -> "Recording"
      [] op = "stop" -> "Idle"

\* a request arrives / is answered with success / is answered with failure
OnReq(g, op, o) ==
    [g EXCEPT !.requests = @ + 1,
              !.overlap = @ \/ InFlight # {},
              !.scen = ScenNext(@, "req", op, o),
              !.quiet = @ /\ op # "start"]
OnOk(g, op) ==
    [g EXCEPT !.accepted = TableNext(op), !.scen = ScenNext(@, "ok", op, NoOptions),
              !.quiet = @ \/ op = "stop"]
OnFail(g, op) ==
    [g EXCEPT !.scen = ScenNext(@, "fail", op, NoOptions)]

\* history before the first request; limit and serial never change
Ghost0(limit, serial) ==
    [limit |-> limit, serial |-> serial, requests |-> 0, overlap |-> FALSE,
     cmdFailed |-> FALSE, captureErrors |-> 0, accepted |-> "Idle", scen |-> 0,
     pausedSecs |-> 0, expected |-> NULL, syncCalls |-> 0, syncOverlap |-> FALSE,
     syncUploads |-> <<>>, syncResults |-> <<>>, delCalls |-> 0,
     apiDeletes |-> <<>>, quiet |-> FALSE, unanswered |-> FALSE, started |-> <<>>,
     logouts |-> 0]

\* the state after construction, all but the history
\* no popup window is open
ClosedPopup == [pc |-> "closed", fetches |-> 0, authToken |-> FALSE,
                shown |-> <<>>, list |-> <<>>]

Constructed ==
    /\ isRecording = FALSE
    /\ isPaused = FALSE
    /\ startTime = NULL
    /\ pausedTime = 0
    /\ offscreen = FALSE
    /\ now = 1
    /\ procs = [p \in Procs |-> IdleProc]
    /\ hprocs = [h \in HProcs |-> IdleHProc]
    /\ outbox = <<>>
    /\ cmds = <<>>
    /\ capture = "inactive"
    /\ captureSeq = 0
    /\ inbox = <<>>
    /\ server = <<>>
    /\ recordings = <<>>
    /\ localRecordings = <<>>
    /\ notifications = <<>>
    /\ badge = ""
    /\ bcast = <<>>
    /\ tabLog = <<>>
    /\ syncs = [s \in SyncProcs |-> IdleSync]
    /\ popup = ClosedPopup

\* the tabs chrome.tabs.query returns, in order; tab 1 is a page without the
\* content script, tab 2 has the RecorderWidget listening
Env(impl) == [impl |-> impl, listening |-> {2}]

\* requests may overlap: a request is taken while others are still in flight
Init == Constructed /\ ghost = Ghost0(MaxReq, FALSE) /\ env = Env("popup")

\* requests are processed one at a time
InitSeq == Constructed /\ ghost = Ghost0(MaxSeqReq, TRUE) /\ env = Env("popup")

\* ------------------------------------------------------------------ clock
Tick ==
    /\ now < MaxClock
    /\ now' = now + 1
    /\ ghost' = [ghost EXCEPT !.pausedSecs = IF isRecording /\ isPaused THEN @ + 1 ELSE @]
    /\ UNCHANGED <<popup, env, syncs, sessionVars, offscreen, procs, hprocs, outbox, surfaceVars,
                   storeVars, notifications, badge, bcast, tabLog>>

\* ====================================================================
\*  Pause-capable RecordingManager (src/ui/popup.js:324-632) behind
\*  BackgroundService (src/unnamed/part_001)
\* ====================================================================

\* RecordingManager.cleanup
cleanup ==
    /\ isRecording' = FALSE
    /\ isPaused' = FALSE
    /\ startTime' = NULL
    /\ pausedTime' = 0

\* RecordingManager.getDuration: the clock is read only while isRecording
getDuration ==
    IF startTime = NULL THEN 0
    ELSE (IF isRecording THEN now - startTime ELSE startTime - startTime) - pausedTime

\* RecordingManager.getStatus
getStatus ==
    [success |-> TRUE, isRecording |-> isRecording, isPaused |-> isPaused,
     startTime |-> startTime, duration |-> getDuration]

\* the loop ends at the first tab whose sendMessage rejects
RECURSIVE NotifyTabs_stopsAtFailure(_, _)
NotifyTabs_stopsAtFailure(tabList, msg) ==
    IF tabList = <<>> THEN <<>>
    ELSE IF Head(tabList) \notin env.listening
         THEN <<[tab |-> Head(tabList), msg |-> msg, ok |-> FALSE]>>
         ELSE <<[tab |-> Head(tabList), msg |-> msg, ok |-> TRUE]>>
                \o NotifyTabs_stopsAtFailure(Tail(tabList), msg)

\* the for loop over the tabs: sendMessage to each, a rejection is caught per tab
RECURSIVE NotifyTabs(_, _)
NotifyTabs(tabList, msg) ==
    IF tabList = <<>> THEN <<>>
    ELSE <<[tab |-> Head(tabList), msg |-> msg, ok |-> Head(tabList) \in env.listening]>>
            \o NotifyTabs(Tail(tabList), msg)

\* chrome.tabs.query({})
QueryTabs == [i \in 1..MaxTabs |-> i]

\* BackgroundService.notifyAllTabs: one message per broadcast, failures swallowed
notifyAllTabs(action, data) ==
    /\ bcast' = Append(bcast, Msg(action, data))
    /\ tabLog' = tabLog \o NotifyTabs(QueryTabs, Msg(action, data))

Finish(p) == procs' = [procs EXCEPT ![p] = IdleProc]
Await(p, pc, op, o) ==
    procs' = [procs EXCEPT ![p] = [pc |-> pc, op |-> op, options |-> o, res |-> "none"]]

\* startRecording up to its first await: the guard reads isRecording only
startRecording_guard(p, o) ==
    /\ FreeProc(p)
    /\ IF isRecording
       THEN /\ cleanup
            /\ ghost' = OnFail(OnReq(ghost, "start", o), "start")
            /\ UNCHANGED procs
       ELSE /\ Await(p, "ensure", "start", o)
            /\ ghost' = OnReq(ghost, "start", o)
            /\ UNCHANGED sessionVars
    /\ UNCHANGED <<popup, env, syncs, offscreen, now, hprocs, outbox, surfaceVars, storeVars,
                   notifications, badge, bcast, tabLog>>

\* ensureOffscreenDocument returns or throws; on return the state is reset,
\* startTime is taken and START_CAPTURE is sent
startRecording_ensure(p, created) ==
    /\ procs[p].pc = "ensure"
    /\ IF created
       THEN /\ offscreen' = TRUE
            /\ pausedTime' = 0
            /\ startTime' = now
            /\ ghost' = [ghost EXCEPT !.pausedSecs = 0]
            /\ procs' = [procs EXCEPT ![p].pc = "sent"]
            /\ UNCHANGED <<isRecording, isPaused>>
       ELSE /\ cleanup
            /\ Finish(p)
            /\ ghost' = [OnFail(ghost, "start") EXCEPT !.cmdFailed = TRUE]
            /\ UNCHANGED offscreen
    /\ UNCHANGED <<popup, env, syncs, now, hprocs, outbox, surfaceVars, storeVars, notifications,
                   badge, bcast, tabLog>>

\* the resume request sends the pause command
CaptureAction_resumeSendsPause(op) ==
    CASE op = "start" -> "START_CAPTURE"
      [] op = "stop" -> "STOP_CAPTURE"
      [] op = "pause" -> "PAUSE_CAPTURE"
      [] op = "resume" -> "PAUSE_CAPTURE"

\* the action string each request sends to the offscreen document
CaptureAction(op) ==
    CASE op = "start" -> "START_CAPTURE"
      [] op = "stop" -> "STOP_CAPTURE"
      [] op = "pause" -> "PAUSE_CAPTURE"
      [] op = "resume" -> "RESUME_CAPTURE"

\* Capture Surface: effect of one received command
SurfaceNext(action, r) ==
    CASE action = "START_CAPTURE" /\ r = "ok" -> "recording"
      [] action = "PAUSE_CAPTURE" /\ capture = "recording" -> "paused"
      [] action = "RESUME_CAPTURE" /\ capture = "paused" -> "recording"
      [] action = "STOP_CAPTURE" -> "inactive"
      [] OTHER -> capture

\* Capture Surface: the artifact emitted when a live capture is stopped
SurfaceEmits(action) ==
    IF action = "STOP_CAPTURE" /\ capture # "inactive"
    THEN <<[type |-> "recordingComplete", blob |-> captureSeq]>>
    ELSE <<>>

\* the offscreen document receives the command of handler p and answers r
Deliver(p, r) ==
    /\ procs[p].pc = "sent"
    /\ r = "fail" => procs[p].op = "start"
    /\ LET action == CaptureAction(procs[p].op) IN
        /\ cmds' = Append(cmds, Cmd(action, procs[p].options))
        /\ capture' = SurfaceNext(action, r)
        /\ captureSeq' = IF action = "START_CAPTURE" /\ r = "ok"
                         THEN captureSeq + 1 ELSE captureSeq
        /\ inbox' = inbox \o SurfaceEmits(action)
    /\ procs' = [procs EXCEPT ![p].pc = "resp", ![p].res = r]
    /\ ghost' = [ghost EXCEPT !.cmdFailed = @ \/ r = "fail"]
    /\ UNCHANGED <<popup, env, syncs, sessionVars, offscreen, now, hprocs, outbox, storeVars,
                   notifications, badge, bcast, tabLog>>

\* chrome.runtime.sendMessage rejects: nothing received the command
Reject(p) ==
    /\ procs[p].pc = "sent"
    /\ procs' = [procs EXCEPT ![p].pc = "resp", ![p].res = "reject"]
    /\ ghost' = [ghost EXCEPT !.cmdFailed = TRUE]
    /\ UNCHANGED <<popup, env, syncs, sessionVars, offscreen, now, hprocs, outbox, surfaceVars,
                   storeVars, notifications, badge, bcast, tabLog>>

\* startRecording after the START_CAPTURE response, then BackgroundService.startRecording
startRecording_result(p) ==
    /\ procs[p].pc = "resp"
    /\ procs[p].op = "start"
    /\ IF procs[p].res = "ok"
       THEN /\ isRecording' = TRUE
            /\ isPaused' = FALSE
            /\ UNCHANGED <<startTime, pausedTime>>
            /\ badge' = "REC"
            /\ notifyAllTabs("RECORDING_STARTED", now)
            /\ notifications' = Append(notifications, "Recording Started")
            /\ ghost' = OnOk(ghost, "start")
       ELSE /\ cleanup
            /\ ghost' = OnFail(ghost, "start")
            /\ UNCHANGED <<badge, bcast, tabLog, notifications>>
    /\ Finish(p)
    /\ UNCHANGED <<popup, env, syncs, offscreen, now, hprocs, outbox, surfaceVars, storeVars>>

\* stopRecording up to its await
stopRecording_guard(p) ==
    /\ FreeProc(p)
    /\ IF ~isRecording
       THEN /\ cleanup
            /\ ghost' = OnFail(OnReq(ghost, "stop", NoOptions), "stop")
            /\ UNCHANGED procs
       ELSE /\ Await(p, "sent", "stop", NoOptions)
            /\ ghost' = OnReq(ghost, "stop", NoOptions)
            /\ UNCHANGED sessionVars
    /\ UNCHANGED <<popup, env, syncs, offscreen, now, hprocs, outbox, surfaceVars, storeVars,
                   notifications, badge, bcast, tabLog>>

\* stopRecording after the STOP_CAPTURE await, then BackgroundService.stopRecording
stopRecording_result(p) ==
    /\ procs[p].pc = "resp"
    /\ procs[p].op = "stop"
    /\ IF procs[p].res # "reject"
       THEN /\ isRecording' = FALSE
            /\ isPaused' = FALSE
            /\ UNCHANGED <<startTime, pausedTime>>
            /\ badge' = ""
            /\ notifyAllTabs("RECORDING_STOPPED", NULL)
            /\ notifications' = Append(notifications, "Recording Stopped")
            /\ ghost' = [OnOk(ghost, "stop") EXCEPT !.expected =
                            IF startTime = NULL THEN NULL
                            ELSE now - startTime - ghost.pausedSecs]
       ELSE /\ cleanup
            /\ ghost' = OnFail(ghost, "stop")
            /\ UNCHANGED <<badge, bcast, tabLog, notifications>>
    /\ Finish(p)
    /\ UNCHANGED <<popup, env, syncs, offscreen, now, hprocs, outbox, surfaceVars, storeVars>>

\* pauseRecording up to its await
pauseRecording_guard(p) ==
    /\ FreeProc(p)
    /\ IF ~isRecording \/ isPaused
       THEN /\ ghost' = OnFail(OnReq(ghost, "pause", NoOptions), "pause")
            /\ UNCHANGED procs
       ELSE /\ Await(p, "sent", "pause", NoOptions)
            /\ ghost' = OnReq(ghost, "pause", NoOptions)
    /\ UNCHANGED <<popup, env, syncs, sessionVars, offscreen, now, hprocs, outbox, surfaceVars,
                   storeVars, notifications, badge, bcast, tabLog>>

\* pauseRecording after the PAUSE_CAPTURE await, then BackgroundService.pauseRecording
pauseRecording_result(p) ==
    /\ procs[p].pc = "resp"
    /\ procs[p].op = "pause"
    /\ IF procs[p].res # "reject"
       THEN /\ isPaused' = TRUE
            /\ badge' = "||"
            /\ notifyAllTabs("RECORDING_PAUSED", NULL)
            /\ ghost' = OnOk(ghost, "pause")
       ELSE /\ ghost' = OnFail(ghost, "pause")
            /\ UNCHANGED <<isPaused, badge, bcast, tabLog>>
    /\ Finish(p)
    /\ UNCHANGED <<popup, env, syncs, isRecording, startTime, pausedTime, offscreen, now, hprocs,
                   outbox, surfaceVars, storeVars, notifications>>

\* resumeRecording up to its await
resumeRecording_guard(p) ==
    /\ FreeProc(p)
    /\ IF ~isRecording \/ ~isPaused
       THEN /\ ghost' = OnFail(OnReq(ghost, "resume", NoOptions), "resume")
            /\ UNCHANGED procs
       ELSE /\ Await(p, "sent", "resume", NoOptions)
            /\ ghost' = OnReq(ghost, "resume", NoOptions)
    /\ UNCHANGED <<popup, env, syncs, sessionVars, offscreen, now, hprocs, outbox, surfaceVars,
                   storeVars, notifications, badge, bcast, tabLog>>

\* resumeRecording after the RESUME_CAPTURE await, then BackgroundService.resumeRecording
resumeRecording_result(p) ==
    /\ procs[p].pc = "resp"
    /\ procs[p].op = "resume"
    /\ IF procs[p].res # "reject"
       THEN /\ isPaused' = FALSE
            /\ badge' = "REC"
            /\ notifyAllTabs("RECORDING_RESUMED", NULL)
            /\ ghost' = OnOk(ghost, "resume")
       ELSE /\ ghost' = OnFail(ghost, "resume")
            /\ UNCHANGED <<isPaused, badge, bcast, tabLog>>
    /\ Finish(p)
    /\ UNCHANGED <<popup, env, syncs, isRecording, startTime, pausedTime, offscreen, now, hprocs,
                   outbox, surfaceVars, storeVars, notifications>>

\* ------------------------------------------------ completion handling
Min(a, b) == IF a < b THEN a ELSE b

\* Array.unshift followed by slice(0, cap)
InsertAtHead(list, rec, cap) == SubSeq(<<rec>> \o list, 1, Min(Len(list) + 1, cap))

\* the record the Remote API answers an upload with
ServerRecording(n, blob, duration, start) ==
    [id |-> <<"srv", n>>, origin |-> blob, blob |-> 0, duration |-> duration,
     startTime |-> start, isLocal |-> FALSE, needsSync |-> FALSE]

\* the local-fallback record built in handleRecordingData's inner catch
LocalRecording(t, blob, duration, start) ==
    [id |-> <<"local", t>>, origin |-> blob, blob |-> blob, duration |-> duration,
     startTime |-> start, isLocal |-> TRUE, needsSync |-> TRUE]

HFinish(h) == hprocs' = [hprocs EXCEPT ![h] = IdleHProc]

\* handleRecordingData up to the tabs.query await: endTime and duration are taken
handleRecordingData_begin(h) ==
    /\ FreeHProc(h)
    /\ inbox # <<>>
    /\ Head(inbox).type = "recordingComplete"
    /\ inbox' = Tail(inbox)
    /\ hprocs' = [hprocs EXCEPT ![h] = [IdleHProc EXCEPT !.pc = "query",
                                            !.blob = Head(inbox).blob,
                                            !.duration = getDuration]]
    /\ UNCHANGED <<popup, env, syncs, sessionVars, offscreen, now, procs, outbox, cmds, capture,
                   captureSeq, storeVars, notifications, badge, bcast, tabLog, ghost>>

\* the metadata is built: this.startTime.toISOString() throws on null
handleRecordingData_metadata(h) ==
    /\ hprocs[h].pc = "query"
    /\ IF startTime = NULL
       THEN /\ notifications' = Append(notifications, "Recording Error")
            /\ HFinish(h)
       ELSE /\ hprocs' = [hprocs EXCEPT ![h].pc = "upload", ![h].startTime = startTime]
            /\ UNCHANGED notifications
    /\ UNCHANGED <<popup, env, syncs, sessionVars, offscreen, now, procs, outbox, surfaceVars,
                   storeVars, badge, bcast, tabLog, ghost>>

\* ApiService.uploadRecording answers {success:true, recording} or {success:false}
handleRecordingData_upload(h, uploaded) ==
    /\ hprocs[h].pc = "upload"
    /\ IF uploaded
       THEN /\ server' = Append(server, hprocs[h].blob)
            /\ hprocs' = [hprocs EXCEPT ![h].pc = "addRecording",
                            ![h].rec = ServerRecording(Len(server) + 1, hprocs[h].blob,
                                           hprocs[h].duration, hprocs[h].startTime)]
       ELSE /\ hprocs' = [hprocs EXCEPT ![h].pc = "addLocalRecording",
                            ![h].rec = LocalRecording(now, hprocs[h].blob,
                                           hprocs[h].duration, hprocs[h].startTime)]
            /\ UNCHANGED server
    /\ UNCHANGED <<popup, env, syncs, sessionVars, offscreen, now, procs, outbox, surfaceVars,
                   recordings, localRecordings, notifications, badge, bcast, tabLog, ghost>>

\* StorageManager.addRecording / addLocalRecording: the chrome.storage.local.get
StorageGet(h) ==
    /\ hprocs[h].pc \in {"addRecording", "addLocalRecording"}
    /\ hprocs' = [hprocs EXCEPT
                    ![h].pc = IF @ = "addRecording" THEN "setRecordings" ELSE "setLocalRecordings",
                    ![h].list = IF hprocs[h].pc = "addRecording" THEN recordings
                                ELSE localRecordings]
    /\ UNCHANGED <<popup, env, syncs, sessionVars, offscreen, now, procs, outbox, surfaceVars,
                   storeVars, notifications, badge, bcast, tabLog, ghost>>

\* StorageManager.addRecording: the chrome.storage.local.set, then the rest of
\* the try block; a storage failure lands in the inner catch (local fallback)
addRecording(h, stored) ==
    /\ hprocs[h].pc = "setRecordings"
    /\ IF stored
       THEN /\ recordings' = InsertAtHead(hprocs[h].list, hprocs[h].rec, RecordingsCap)
            /\ notifications' = Append(notifications, "Recording Saved")
            /\ cleanup
            /\ HFinish(h)
       ELSE /\ hprocs' = [hprocs EXCEPT ![h].pc = "addLocalRecording",
                            ![h].rec = LocalRecording(now, hprocs[h].blob,
                                           hprocs[h].duration, hprocs[h].startTime)]
            /\ UNCHANGED <<recordings, notifications, sessionVars>>
    /\ UNCHANGED <<popup, env, syncs, offscreen, now, procs, outbox, surfaceVars, server,
                   localRecordings, badge, bcast, tabLog, ghost>>

\* StorageManager.addLocalRecording: the chrome.storage.local.set, then the rest
\* of handleRecordingData; a storage failure lands in the outer catch
addLocalRecording(h, stored) ==
    /\ hprocs[h].pc = "setLocalRecordings"
    /\ IF stored
       THEN /\ localRecordings' = InsertAtHead(hprocs[h].list, hprocs[h].rec, LocalCap)
            /\ notifications' = Append(notifications, "Recording Saved Locally")
            /\ cleanup
       ELSE /\ notifications' = Append(notifications, "Recording Error")
            /\ UNCHANGED <<localRecordings, sessionVars>>
    /\ HFinish(h)
    /\ UNCHANGED <<popup, env, syncs, offscreen, now, procs, outbox, surfaceVars, server,
                   recordings, badge, bcast, tabLog, ghost>>

\* the case labels of the switch in BackgroundService.handleMessage
HandledActions ==
    {"START_RECORDING", "STOP_RECORDING", "PAUSE_RECORDING", "RESUME_RECORDING",
     "GET_RECORDING_STATUS", "GET_RECORDINGS", "DELETE_RECORDING", "SYNC_RECORDINGS",
     "UPDATE_SETTINGS", "GET_SETTINGS"}

\* BackgroundService.handleMessage, default branch: a message of the Capture
\* Surface arrives at the only onMessage listener of the service worker, its
\* action matches no case and it is answered 'Unknown action'. No statement
\* under src/ calls handleRecordingData; handleRecordingData_begin is that
\* method invoked with the artifact all the same.
handleMessage_default ==
    /\ inbox # <<>>
    /\ Head(inbox).type \notin HandledActions
    /\ inbox' = Tail(inbox)
    /\ UNCHANGED <<popup, env, syncs, sessionVars, offscreen, now, procs, hprocs, outbox, cmds,
                   capture, captureSeq, storeVars, notifications, badge, bcast, tabLog,
                   ghost>>

Next ==
    \/ Tick
    \/ handleMessage_default
    \/ \E p \in Procs, o \in Options : startRecording_guard(p, o)
    \/ \E p \in Procs, created \in BOOLEAN : startRecording_ensure(p, created)
    \/ \E p \in Procs, r \in {"ok", "fail"} : Deliver(p, r)
    \/ \E p \in Procs : Reject(p)
    \/ \E p \in Procs : startRecording_result(p)
    \/ \E p \in Procs : stopRecording_guard(p)
    \/ \E p \in Procs : stopRecording_result(p)
    \/ \E p \in Procs : pauseRecording_guard(p)
    \/ \E p \in Procs : pauseRecording_result(p)
    \/ \E p \in Procs : resumeRecording_guard(p)
    \/ \E p \in Procs : resumeRecording_result(p)
    \/ \E h \in HProcs : handleRecordingData_begin(h)
    \/ \E h \in HProcs : handleRecordingData_metadata(h)
    \/ \E h \in HProcs, uploaded \in BOOLEAN : handleRecordingData_upload(h, uploaded)
    \/ \E h \in HProcs : StorageGet(h)
    \/ \E h \in HProcs, stored \in BOOLEAN : addRecording(h, stored)
    \/ \E h \in HProcs, stored \in BOOLEAN : addLocalRecording(h, stored)

Spec == Init /\ [][Next]_vars

SpecSeq == InitSeq /\ [][Next]_vars

\* ====================================================================
\*  RecordingManager and onMessage listener of src/background.js
\* ====================================================================

\* RecordingManager.notifyTabsRecordingStatus: per-tab failures are swallowed
notifyTabsRecordingStatus(flag) ==
    /\ bcast' = Append(bcast, Msg("updateRecordingStatus", flag))
    /\ tabLog' = tabLog \o NotifyTabs(QueryTabs, Msg("updateRecordingStatus", flag))

\* the catch block of startRecording (src/background.js:54-61)
bg_startRecording_catch ==
    /\ isRecording' = FALSE
    /\ badge' = ""
    /\ notifyTabsRecordingStatus(FALSE)

\* startRecording up to the ensureOffscreenDocument await
bg_startRecording_guard(p, o) ==
    /\ FreeProc(p)
    /\ IF isRecording
       THEN /\ bg_startRecording_catch
            /\ ghost' = OnFail(OnReq(ghost, "start", o), "start")
            /\ UNCHANGED procs
       ELSE /\ Await(p, "ensure", "start", o)
            /\ ghost' = OnReq(ghost, "start", o)
            /\ UNCHANGED <<isRecording, badge, bcast, tabLog>>
    /\ UNCHANGED <<popup, env, syncs, isPaused, startTime, pausedTime, offscreen, now, hprocs, outbox,
                   surfaceVars, storeVars, notifications>>

\* ensureOffscreenDocument returns or throws; on return the session is marked
\* recording and the tabs are notified before anything is sent to the offscreen
bg_startRecording_ensure(p, created) ==
    /\ procs[p].pc = "ensure"
    /\ IF created
       THEN /\ offscreen' = TRUE
            /\ isRecording' = TRUE
            /\ startTime' = now
            /\ badge' = "REC"
            /\ notifyTabsRecordingStatus(TRUE)
            /\ procs' = [procs EXCEPT ![p].pc = "notify"]
            /\ UNCHANGED ghost
       ELSE /\ bg_startRecording_catch
            /\ Finish(p)
            /\ ghost' = [OnFail(ghost, "start") EXCEPT !.cmdFailed = TRUE]
            /\ UNCHANGED <<offscreen, startTime>>
    /\ UNCHANGED <<popup, env, syncs, isPaused, pausedTime, now, hprocs, outbox, surfaceVars,
                   storeVars, notifications>>

\* after the tabs are notified: sendToOffscreen(startCapture), fire and forget
bg_startRecording_send(p) ==
    /\ procs[p].pc = "notify"
    /\ outbox' = Append(outbox, Cmd("startCapture", procs[p].options))
    /\ ghost' = OnOk(ghost, "start")
    /\ Finish(p)
    /\ UNCHANGED <<popup, env, syncs, sessionVars, offscreen, now, hprocs, surfaceVars, storeVars,
                   notifications, badge, bcast, tabLog>>

\* RecordingManager.stopRecording (src/background.js:64-93)
bg_stopRecording(p) ==
    /\ FreeProc(p)
    /\ IF ~isRecording
       THEN /\ ghost' = OnFail(OnReq(ghost, "stop", NoOptions), "stop")
            /\ UNCHANGED <<isRecording, outbox, badge, bcast, tabLog>>
       ELSE /\ outbox' = Append(outbox, Cmd("stopCapture", NoOptions))
            /\ isRecording' = FALSE
            /\ badge' = ""
            /\ notifyTabsRecordingStatus(FALSE)
            /\ ghost' = OnOk(OnReq(ghost, "stop", NoOptions), "stop")
    /\ UNCHANGED <<popup, env, syncs, isPaused, startTime, pausedTime, offscreen, now, procs, hprocs,
                   surfaceVars, storeVars, notifications>>

\* Capture Surface: what it emits on a received command
bg_SurfaceEmits(action, r) ==
    CASE action = "startCapture" /\ r = "fail" -> <<[type |-> "captureError", blob |-> 0]>>
      [] action = "stopCapture" /\ capture # "inactive" ->
                <<[type |-> "recordingComplete", blob |-> captureSeq]>>
      [] OTHER -> <<>>

\* the offscreen document receives the oldest command sent by sendToOffscreen
bg_Deliver(r) ==
    /\ outbox # <<>>
    /\ r = "fail" => Head(outbox).action = "startCapture"
    /\ LET action == Head(outbox).action IN
        /\ cmds' = Append(cmds, Head(outbox))
        /\ capture' = CASE action = "startCapture" /\ r = "ok" -> "recording"
                        [] action = "stopCapture" -> "inactive"
                        [] OTHER -> capture
        /\ captureSeq' = IF action = "startCapture" /\ r = "ok"
                         THEN captureSeq + 1 ELSE captureSeq
        /\ inbox' = inbox \o bg_SurfaceEmits(action, r)
        /\ ghost' = [ghost EXCEPT !.captureErrors = IF r = "fail" THEN @ + 1 ELSE @,
                                  !.cmdFailed = @ \/ r = "fail",
                                  !.started = IF action = "startCapture" /\ r = "ok"
                                              THEN Append(@, startTime) ELSE @]
    /\ outbox' = Tail(outbox)
    /\ UNCHANGED <<popup, env, syncs, sessionVars, offscreen, now, procs, hprocs, storeVars,
                   notifications, badge, bcast, tabLog>>

\* sendToOffscreen: chrome.runtime.sendMessage rejects, the error is only logged
sendToOffscreen_rejected ==
    /\ outbox # <<>>
    /\ outbox' = Tail(outbox)
    /\ ghost' = [ghost EXCEPT !.cmdFailed = TRUE]
    /\ UNCHANGED <<popup, env, syncs, sessionVars, offscreen, now, procs, hprocs, surfaceVars,
                   storeVars, notifications, badge, bcast, tabLog>>

\* the captureError case without the reset of isRecording
onCaptureError_keepsRecording ==
    /\ inbox # <<>>
    /\ Head(inbox).type = "captureError"
    /\ inbox' = Tail(inbox)
    /\ badge' = ""
    /\ notifyTabsRecordingStatus(FALSE)
    /\ notifications' = Append(notifications, "Recording Error")
    /\ UNCHANGED <<popup, env, syncs, sessionVars, offscreen, now, procs, hprocs,
                   outbox, cmds, capture, captureSeq, storeVars, ghost>>

\* onMessage listener, case 'captureError' (src/background.js:312-325)
onCaptureError ==
    /\ inbox # <<>>
    /\ Head(inbox).type = "captureError"
    /\ inbox' = Tail(inbox)
    /\ isRecording' = FALSE
    /\ badge' = ""
    /\ notifyTabsRecordingStatus(FALSE)
    /\ notifications' = Append(notifications, "Recording Error")
    /\ UNCHANGED <<popup, env, syncs, isPaused, startTime, pausedTime, offscreen, now, procs, hprocs,
                   outbox, cmds, capture, captureSeq, storeVars, ghost>>

\* Capture Surface: the recorder fails in the middle of a capture
SurfaceRecordingError ==
    /\ capture = "recording"
    /\ capture' = "inactive"
    /\ inbox' = Append(inbox, [type |-> "recordingError", blob |-> 0])
    /\ UNCHANGED <<popup, env, syncs, sessionVars, offscreen, now, procs, hprocs, outbox, cmds,
                   captureSeq, storeVars, notifications, badge, bcast, tabLog, ghost>>

\* the recordingError case without its notification
onRecordingError_silent ==
    /\ inbox # <<>>
    /\ Head(inbox).type = "recordingError"
    /\ inbox' = Tail(inbox)
    /\ UNCHANGED <<popup, env, syncs, sessionVars, offscreen, now, procs, hprocs, outbox, cmds,
                   capture, captureSeq, storeVars, badge, bcast, tabLog, ghost,
                   notifications>>

\* onMessage listener, case 'recordingError' (src/background.js:333-342)
onRecordingError ==
    /\ inbox # <<>>
    /\ Head(inbox).type = "recordingError"
    /\ inbox' = Tail(inbox)
    /\ notifications' = Append(notifications, "Recording Error")
    /\ UNCHANGED <<popup, env, syncs, sessionVars, offscreen, now, procs, hprocs, outbox, cmds,
                   capture, captureSeq, storeVars, badge, bcast, tabLog, ghost>>

\* handleRecordingComplete up to its first await: endTime and duration are taken
handleRecordingComplete_begin(h) ==
    /\ FreeHProc(h)
    /\ inbox # <<>>
    /\ Head(inbox).type = "recordingComplete"
    /\ inbox' = Tail(inbox)
    /\ hprocs' = [hprocs EXCEPT ![h] = [IdleHProc EXCEPT !.pc = "query",
                                            !.blob = Head(inbox).blob,
                                            !.duration = now - startTime]]
    /\ UNCHANGED <<popup, env, syncs, sessionVars, offscreen, now, procs, outbox, cmds, capture,
                   captureSeq, storeVars, notifications, badge, bcast, tabLog, ghost>>

\* after fetch and tabs.query: the metadata reads this.startTime again
handleRecordingComplete_metadata(h) ==
    /\ hprocs[h].pc = "query"
    /\ hprocs' = [hprocs EXCEPT ![h].pc = "upload", ![h].startTime = startTime]
    /\ UNCHANGED <<popup, env, syncs, sessionVars, offscreen, now, procs, outbox, surfaceVars,
                   storeVars, notifications, badge, bcast, tabLog, ghost>>

\* RecordingManager.uploadRecording answers {success:true, data} or {success:false}
bg_uploadRecording(h, uploaded) ==
    /\ hprocs[h].pc = "upload"
    /\ IF uploaded
       THEN /\ server' = Append(server, hprocs[h].blob)
            /\ hprocs' = [hprocs EXCEPT ![h].pc = "addRecording",
                            ![h].rec = ServerRecording(Len(server) + 1, hprocs[h].blob,
                                           hprocs[h].duration, hprocs[h].startTime)]
       ELSE /\ hprocs' = [hprocs EXCEPT ![h].pc = "addLocalRecording"]
            /\ UNCHANGED server
    /\ UNCHANGED <<popup, env, syncs, sessionVars, offscreen, now, procs, outbox, surfaceVars,
                   recordings, localRecordings, notifications, badge, bcast, tabLog, ghost>>

\* storeRecordingMetadata / storeRecordingLocally: the chrome.storage.local.get;
\* the local record takes its id from the clock just before
bg_StorageGet(h) ==
    /\ hprocs[h].pc \in {"addRecording", "addLocalRecording"}
    /\ hprocs' = [hprocs EXCEPT ![h] =
                    IF @.pc = "addRecording"
                    THEN [@ EXCEPT !.pc = "setRecordings", !.list = recordings]
                    ELSE [@ EXCEPT !.pc = "setLocalRecordings", !.list = localRecordings,
                                   !.rec = LocalRecording(now, hprocs[h].blob,
                                              hprocs[h].duration, hprocs[h].startTime)]]
    /\ UNCHANGED <<popup, env, syncs, sessionVars, offscreen, now, procs, outbox, surfaceVars,
                   storeVars, notifications, badge, bcast, tabLog, ghost>>

\* storeRecordingMetadata: the chrome.storage.local.set; a failure is only logged
storeRecordingMetadata(h, stored) ==
    /\ hprocs[h].pc = "setRecordings"
    /\ recordings' = IF stored THEN InsertAtHead(hprocs[h].list, hprocs[h].rec, RecordingsCap)
                     ELSE recordings
    /\ notifications' = Append(notifications, "Recording Saved")
    /\ HFinish(h)
    /\ UNCHANGED <<popup, env, syncs, sessionVars, offscreen, now, procs, outbox, surfaceVars, server,
                   localRecordings, badge, bcast, tabLog, ghost>>

\* storeRecordingLocally: the chrome.storage.local.set; a failure is only logged
storeRecordingLocally(h, stored) ==
    /\ hprocs[h].pc = "setLocalRecordings"
    /\ localRecordings' = IF stored THEN InsertAtHead(hprocs[h].list, hprocs[h].rec, BgLocalCap)
                          ELSE localRecordings
    /\ notifications' = Append(notifications, "Recording Saved Locally")
    /\ HFinish(h)
    /\ UNCHANGED <<popup, env, syncs, sessionVars, offscreen, now, procs, outbox, surfaceVars, server,
                   recordings, badge, bcast, tabLog, ghost>>

\* a request that carries no target property
NoTarget == "none"

\* the case labels of the listener's two switch statements
OffscreenCases == {"captureStarted", "captureError", "recordingComplete", "recordingError"}
BackgroundCases ==
    {"startRecording", "stopRecording", "getRecordingStatus", "syncRecordings", "logout"}

\* chrome.runtime.onMessage listener of src/background.js: the branch a request
\* ends in. `if (!request.target)` comes first and ends in `return`, so the
\* second `if` is reached only by requests that carry a target. "return" is
\* the listener returning without a call of sendResponse.
onMessage(req) ==
    IF req.target = NoTarget
    THEN IF req.action \in OffscreenCases THEN req.action ELSE "return"
    ELSE IF req.target = "background" \/ (req.target = NoTarget /\ req.action # "")
         THEN IF req.action \in BackgroundCases THEN req.action ELSE "default"
         ELSE "return"

\* an observer's request that the listener leaves without handling it: nothing
\* runs and sendResponse is never called. (The requests the other actions of
\* this build begin with carry target:'background', as src/popup.js sends them
\* for startRecording, stopRecording and getRecordingStatus.)
bg_onMessage_return(target, action) ==
    /\ ghost.requests < ghost.limit
    /\ onMessage([target |-> target, action |-> action]) = "return"
    /\ ghost' = [ghost EXCEPT !.requests = @ + 1, !.unanswered = TRUE]
    /\ UNCHANGED <<popup, env, syncs, sessionVars, offscreen, now, procs, hprocs, outbox,
                   surfaceVars, storeVars, notifications, badge, bcast, tabLog>>

\* onMessage listener, case 'logout' (with target:'background', as src/popup.js
\* sends it): the token is removed, the badge cleared and every tab told that
\* recording is off; recordingManager is not touched
bg_logout ==
    /\ ghost.requests < ghost.limit
    /\ ghost.serial => InFlight = {}
    /\ ghost.logouts < MaxLogouts
    /\ onMessage([target |-> "background", action |-> "logout"]) = "logout"
    /\ badge' = ""
    /\ notifyTabsRecordingStatus(FALSE)
    /\ ghost' = [ghost EXCEPT !.requests = @ + 1, !.logouts = @ + 1]
    /\ UNCHANGED <<popup, env, syncs, sessionVars, offscreen, now, procs, hprocs, outbox,
                   surfaceVars, storeVars, notifications>>

NextBG ==
    \/ Tick
    \/ bg_logout
    \/ \E target \in {NoTarget, "background"}, action \in BackgroundCases :
            bg_onMessage_return(target, action)
    \/ \E p \in Procs, o \in Options : bg_startRecording_guard(p, o)
    \/ \E p \in Procs, created \in BOOLEAN : bg_startRecording_ensure(p, created)
    \/ \E p \in Procs : bg_startRecording_send(p)
    \/ \E p \in Procs : bg_stopRecording(p)
    \/ \E r \in {"ok", "fail"} : bg_Deliver(r)
    \/ sendToOffscreen_rejected
    \/ onCaptureError
    \/ SurfaceRecordingError
    \/ onRecordingError
    \/ \E h \in HProcs : handleRecordingComplete_begin(h)
    \/ \E h \in HProcs : handleRecordingComplete_metadata(h)
    \/ \E h \in HProcs, uploaded \in BOOLEAN : bg_uploadRecording(h, uploaded)
    \/ \E h \in HProcs : bg_StorageGet(h)
    \/ \E h \in HProcs, stored \in BOOLEAN : storeRecordingMetadata(h, stored)
    \/ \E h \in HProcs, stored \in BOOLEAN : storeRecordingLocally(h, stored)

InitBG == Constructed /\ ghost = Ghost0(MaxReq, FALSE) /\ env = Env("background")

SpecBG == InitBG /\ [][NextBG]_vars

\* either build of the coordinator, chosen when the extension is loaded
InitAll ==
    /\ Constructed
    /\ ghost = Ghost0(MaxReq, FALSE)
    /\ env \in {Env("popup"), Env("background")}

NextAll ==
    \/ env.impl = "popup" /\ Next
    \/ env.impl = "background" /\ NextBG

SpecAll == InitAll /\ [][NextAll]_vars

\* ====================================================================
\*  Reconciliation: StorageManager.syncPendingRecordings
\*  (src/services/storage-manager.js:212-276) behind BackgroundService, and
\*  syncPendingRecordings of src/background.js:406-450
\* ====================================================================

syncFrame == <<sessionVars, offscreen, now, procs, hprocs, outbox, surfaceVars,
               badge, bcast, tabLog, env, popup>>

\* the lowest free slot takes the next call; calls overlap each other only in
\* the runs without recording requests (ghost.limit = 0)
FreeSync(s) == /\ syncs[s].pc = "idle"
               /\ \A q \in SyncProcs : q < s => syncs[q].pc # "idle"
               /\ ghost.limit > 0 => \A q \in SyncProcs : syncs[q].pc = "idle"

\* localRecordings.filter(r => r.needsSync), as positions in the array read
PendingIdx(list) ==
    SelectSeq([i \in 1..Len(list) |-> i], LAMBDA i : list[i].needsSync)

\* Array.findIndex(r => r.id === id), 0 where the code gets -1
FindIndex(list, id) ==
    IF \E j \in 1..Len(list) : list[j].id = id
    THEN CHOOSE j \in 1..Len(list) :
            /\ list[j].id = id
            /\ \A k \in 1..(j - 1) : list[k].id # id
    ELSE 0

\* the fields the Remote API sends back for an uploaded recording
ServerFields == {"id", "origin", "duration", "startTime"}

\* Object.assign(target, source)
Assign(target, source) ==
    [f \in DOMAIN target |-> IF f \in DOMAIN source THEN source[f] ELSE target[f]]

\* storage-manager.js:246-251: the entry becomes the server's record
MarkSynced(srv) == [srv EXCEPT !.needsSync = FALSE, !.isLocal = FALSE, !.blob = 0]

\* the pending record keeps its payload when it is marked synced
bg_MarkSynced_keepsData(rec, srv) ==
    Assign([rec EXCEPT !.needsSync = FALSE, !.isLocal = FALSE],
           [f \in ServerFields |-> srv[f]])

\* background.js:432-435: the pending record is changed in place
bg_MarkSynced(rec, srv) ==
    Assign([rec EXCEPT !.needsSync = FALSE, !.isLocal = FALSE, !.blob = 0],
           [f \in ServerFields |-> srv[f]])

\* the call returns res; BackgroundService.syncRecordings then notifies
SyncReturn(s, res) ==
    /\ ghost' = [ghost EXCEPT !.syncResults = Append(@,
                    [success |-> res.success, synced |-> res.synced,
                     n |-> Len(syncs[s].pending), uploaded |-> syncs[s].uploaded])]
    /\ syncs' = [syncs EXCEPT ![s] = IdleSync]
    /\ notifications' = IF env.impl = "popup" /\ res.success /\ res.synced > 0
                        THEN Append(notifications, "Sync Complete")
                        ELSE notifications

\* the loop is left after the record at hand, whatever is still pending
NextItem_leavesLoop(sp) == [sp EXCEPT !.pc = "set"]

\* the for loop moves to the next pending record, or leaves the loop
NextItem(sp) ==
    IF sp.i < Len(sp.pending) THEN [sp EXCEPT !.pc = "upload", !.i = @ + 1]
    ELSE [sp EXCEPT !.pc = "set"]

\* syncPendingRecordings is called: up to the chrome.storage.local.get
sync_begin(s) ==
    /\ FreeSync(s)
    /\ ghost.syncCalls < MaxSyncCalls
    /\ syncs' = [syncs EXCEPT ![s] = [IdleSync EXCEPT !.pc = "get", !.op = "sync"]]
    /\ ghost' = [ghost EXCEPT !.syncCalls = @ + 1,
                              !.syncOverlap = @ \/ \E q \in SyncProcs : syncs[q].op = "sync"]
    /\ UNCHANGED <<syncFrame, storeVars, notifications>>

\* the get answers: the pending records are filtered out of the array read
sync_get(s) ==
    /\ syncs[s].pc = "get"
    /\ syncs[s].op = "sync"
    /\ IF PendingIdx(localRecordings) = <<>>
       THEN SyncReturn(s, [success |-> TRUE, synced |-> 0])
       ELSE /\ syncs' = [syncs EXCEPT ![s].pc = "upload", ![s].i = 1,
                                      ![s].list = localRecordings,
                                      ![s].pending = PendingIdx(localRecordings)]
            /\ UNCHANGED <<ghost, notifications>>
    /\ UNCHANGED <<syncFrame, storeVars>>

\* one pending record: the payload is fetched and uploaded; outcome "ok" is
\* {success:true}, "fail" is {success:false}, "throw" is an exception (caught)
sync_upload(s, outcome) ==
    /\ syncs[s].pc = "upload"
    /\ LET sp == syncs[s]
           rec == sp.list[sp.pending[sp.i]]
           srv == ServerRecording(Len(server) + 1, rec.origin, rec.duration, rec.startTime)
           j == FindIndex(sp.list, rec.id)
       IN  /\ ghost' = IF outcome = "throw" THEN ghost
                       ELSE [ghost EXCEPT !.syncUploads =
                                Append(@, [id |-> rec.id, ok |-> outcome = "ok"])]
           /\ IF outcome = "ok"
              THEN /\ server' = Append(server, rec.blob)
                   /\ IF env.impl = "popup"
                      THEN syncs' = [syncs EXCEPT ![s] =
                              [sp EXCEPT !.pc = "addGet", !.rec = srv,
                                         !.uploaded = @ + 1,
                                         !.list = IF j = 0 THEN @
                                                  ELSE [@ EXCEPT ![j] = MarkSynced(srv)]]]
                      ELSE syncs' = [syncs EXCEPT ![s] =
                              NextItem([sp EXCEPT !.synced = @ + 1, !.uploaded = @ + 1,
                                         !.list = [@ EXCEPT ![sp.pending[sp.i]] =
                                                      bg_MarkSynced(rec, srv)]])]
              ELSE /\ syncs' = [syncs EXCEPT ![s] = NextItem(sp)]
                   /\ UNCHANGED server
    /\ UNCHANGED <<syncFrame, recordings, localRecordings, notifications>>

\* StorageManager.addRecording inside the loop: the chrome.storage.local.get
sync_addGet(s) ==
    /\ syncs[s].pc = "addGet"
    /\ syncs' = [syncs EXCEPT ![s].pc = "addSet", ![s].recs = recordings]
    /\ UNCHANGED <<syncFrame, storeVars, notifications, ghost>>

\* StorageManager.addRecording inside the loop: the chrome.storage.local.set;
\* a failure is thrown into the per-record catch, syncedCount is not increased
sync_addSet(s, stored) ==
    /\ syncs[s].pc = "addSet"
    /\ IF stored
       THEN /\ recordings' = InsertAtHead(syncs[s].recs, syncs[s].rec, RecordingsCap)
            /\ syncs' = [syncs EXCEPT ![s] = NextItem([syncs[s] EXCEPT !.synced = @ + 1])]
       ELSE /\ syncs' = [syncs EXCEPT ![s] = NextItem(syncs[s])]
            /\ UNCHANGED recordings
    /\ UNCHANGED <<syncFrame, server, localRecordings, notifications, ghost>>

\* after the loop the array is written back; a failure lands in the outer catch
sync_set(s, stored) ==
    /\ syncs[s].pc = "set"
    /\ IF stored
       THEN /\ localRecordings' = syncs[s].list
            /\ SyncReturn(s, [success |-> TRUE, synced |-> syncs[s].synced])
       ELSE /\ UNCHANGED localRecordings
            /\ SyncReturn(s, [success |-> FALSE, synced |-> 0])
    /\ UNCHANGED <<syncFrame, server, recordings>>

\* ------------------------------------------------------------ deletion
\* Array.filter(r => r.id !== id)
WithoutId(list, id) == SelectSeq(list, LAMBDA r : r.id # id)

\* an id the observer may ask to delete: one it was shown, or a stale one
DeletableIds ==
    {recordings[i].id : i \in 1..Len(recordings)}
        \cup {localRecordings[i].id : i \in 1..Len(localRecordings)}
        \cup {<<"srv", 0>>}

\* BackgroundService.deleteRecording calls StorageManager.deleteRecording: up
\* to the get of `recordings` (explored in the runs without recording requests)
deleteRecording_begin(s, id) ==
    /\ FreeSync(s)
    /\ env.impl = "popup"
    /\ ghost.delCalls < MaxDelCalls
    /\ ghost.limit = 0
    /\ syncs' = [syncs EXCEPT ![s] = [IdleSync EXCEPT !.pc = "getCloud", !.op = "delete",
                                                     !.id = id]]
    /\ ghost' = [ghost EXCEPT !.delCalls = @ + 1]
    /\ UNCHANGED <<syncFrame, storeVars, notifications>>

\* `recordings` is read and filtered; nothing removed: `localRecordings` is next
deleteRecording_getCloud(s) ==
    /\ syncs[s].pc = "getCloud"
    /\ syncs' = [syncs EXCEPT ![s] =
                    IF Len(WithoutId(recordings, syncs[s].id)) < Len(recordings)
                    THEN [@ EXCEPT !.pc = "setCloud", !.list = WithoutId(recordings, syncs[s].id)]
                    ELSE [@ EXCEPT !.pc = "getLocal"]]
    /\ UNCHANGED <<syncFrame, storeVars, notifications, ghost>>

\* the filtered `recordings` is written: deleteRecording returns true, or throws
deleteRecording_setCloud(s, stored) ==
    /\ syncs[s].pc = "setCloud"
    /\ IF stored
       THEN /\ recordings' = syncs[s].list
            /\ syncs' = [syncs EXCEPT ![s].pc = "lookup", ![s].ret = "true"]
       ELSE /\ UNCHANGED recordings
            /\ syncs' = [syncs EXCEPT ![s] = IdleSync]
    /\ UNCHANGED <<syncFrame, server, localRecordings, notifications, ghost>>

\* `localRecordings` is read and filtered; nothing removed: returns false
deleteRecording_getLocal(s) ==
    /\ syncs[s].pc = "getLocal"
    /\ syncs' = [syncs EXCEPT ![s] =
                    IF Len(WithoutId(localRecordings, syncs[s].id)) < Len(localRecordings)
                    THEN [@ EXCEPT !.pc = "setLocal",
                                   !.list = WithoutId(localRecordings, syncs[s].id)]
                    ELSE [@ EXCEPT !.pc = "lookup", !.ret = "false"]]
    /\ UNCHANGED <<syncFrame, storeVars, notifications, ghost>>

\* the filtered `localRecordings` is written: returns true, or throws
deleteRecording_setLocal(s, stored) ==
    /\ syncs[s].pc = "setLocal"
    /\ IF stored
       THEN /\ localRecordings' = syncs[s].list
            /\ syncs' = [syncs EXCEPT ![s].pc = "lookup", ![s].ret = "true"]
       ELSE /\ UNCHANGED localRecordings
            /\ syncs' = [syncs EXCEPT ![s] = IdleSync]
    /\ UNCHANGED <<syncFrame, server, recordings, notifications, ghost>>

\* StorageManager.getRecording: recordings.find(r => r.id === id) over both
\* collections; a sequence of one record, or empty
getRecording(id) ==
    LET all == recordings \o localRecordings
        j == FindIndex(all, id)
    IN  IF j = 0 THEN <<>> ELSE <<all[j]>>

\* BackgroundService.deleteRecording after the storage delete: the record is
\* looked up and, when found with isLocal false, deleted from the Remote API
deleteRecording_lookup(s) ==
    /\ syncs[s].pc = "lookup"
    /\ ghost' = [ghost EXCEPT !.apiDeletes =
                    IF getRecording(syncs[s].id) # <<>> /\ ~getRecording(syncs[s].id)[1].isLocal
                    THEN Append(@, syncs[s].id) ELSE @]
    /\ syncs' = [syncs EXCEPT ![s] = IdleSync]
    /\ UNCHANGED <<syncFrame, storeVars, notifications>>

\* records left in chrome.storage by earlier runs of the service worker, the
\* most recent first: local-fallback records still waiting for their upload
StoredRecording(k) == LocalRecording(0 - 10 * k, 100 + k, 1, 0 - 10 * k)
StoredLocal == {[i \in 1..n |-> StoredRecording(i)] : n \in 0..MaxStored}

\* a (re)started service worker of either build over the persisted storage
InitSync ==
    /\ isRecording = FALSE /\ isPaused = FALSE /\ startTime = NULL /\ pausedTime = 0
    /\ offscreen = FALSE /\ now = 1
    /\ procs = [p \in Procs |-> IdleProc]
    /\ hprocs = [h \in HProcs |-> IdleHProc]
    /\ outbox = <<>> /\ cmds = <<>> /\ capture = "inactive" /\ captureSeq = 0
    /\ inbox = <<>> /\ server = <<>> /\ recordings = <<>>
    /\ ghost \in {Ghost0(0, TRUE), Ghost0(MaxSyncReq, TRUE)}
    /\ localRecordings \in StoredLocal
    /\ ghost.limit > 0 => Len(localRecordings) < MaxStored
    /\ notifications = <<>> /\ badge = "" /\ bcast = <<>> /\ tabLog = <<>>
    /\ syncs = [s \in SyncProcs |-> IdleSync]
    /\ popup = ClosedPopup
    /\ env \in {Env("popup"), Env("background")}

NextSync ==
    \/ env.impl = "popup" /\ Next
    \/ env.impl = "background" /\ NextBG
    \/ \E s \in SyncProcs : sync_begin(s)
    \/ \E s \in SyncProcs : sync_get(s)
    \/ \E s \in SyncProcs, outcome \in {"ok", "fail", "throw"} : sync_upload(s, outcome)
    \/ \E s \in SyncProcs : sync_addGet(s)
    \/ \E s \in SyncProcs, stored \in BOOLEAN : sync_addSet(s, stored)
    \/ \E s \in SyncProcs, stored \in BOOLEAN : sync_set(s, stored)
    \/ \E s \in SyncProcs, id \in DeletableIds : deleteRecording_begin(s, id)
    \/ \E s \in SyncProcs : deleteRecording_getCloud(s)
    \/ \E s \in SyncProcs, stored \in BOOLEAN : deleteRecording_setCloud(s, stored)
    \/ \E s \in SyncProcs : deleteRecording_getLocal(s)
    \/ \E s \in SyncProcs, stored \in BOOLEAN : deleteRecording_setLocal(s, stored)
    \/ \E s \in SyncProcs : deleteRecording_lookup(s)

SpecSync == InitSync /\ [][NextSync]_vars

\* ====================================================================
\*  PopupController of src/popup.js: loadRecordings
\* ====================================================================

popupFrame == <<sessionVars, offscreen, now, procs, hprocs, outbox, surfaceVars, server,
                notifications, badge, bcast, tabLog, env, syncs, ghost>>

\* Array.sort by startTime, most recent first (the sort is stable)
RECURSIVE InsertByStart(_, _)
InsertByStart(sorted, r) ==
    IF sorted = <<>> THEN <<r>>
    ELSE IF r.startTime > Head(sorted).startTime THEN <<r>> \o sorted
         ELSE <<Head(sorted)>> \o InsertByStart(Tail(sorted), r)

RECURSIVE SortByStart(_)
SortByStart(list) ==
    IF list = <<>> THEN <<>>
    ELSE InsertByStart(SortByStart(SubSeq(list, 1, Len(list) - 1)), list[Len(list)])

\* the lists GET /api/recordings may answer with
ServerLists ==
    {<<>>, <<ServerRecording(1, 1, 1, 0)>>,
     <<ServerRecording(2, 2, 1, 1), ServerRecording(1, 1, 1, 0)>>}

\* loadRecordings: both collections are read, combined, sorted and cut to the
\* ten shown; an empty list returns before the fetch; with an auth token
\* fetchRecordingsFromServer is called (not awaited). A rejected get lands in
\* the catch block.
loadRecordings(read) ==
    /\ popup.pc = "load"
    /\ IF read
       THEN LET all == SubSeq(SortByStart(recordings \o localRecordings), 1,
                             Min(Len(recordings) + Len(localRecordings), DisplayCap))
            IN  popup' = [popup EXCEPT
                            !.shown = all,
                            !.pc = IF all # <<>> /\ popup.authToken THEN "fetch" ELSE "done"]
       ELSE popup' = [popup EXCEPT !.pc = "done"]
    /\ UNCHANGED <<popupFrame, recordings, localRecordings>>

\* fetchRecordingsFromServer up to the storage write: the fetch answers ok with
\* {success:true, recordings: list}, answers not ok, or rejects
fetchRecordingsFromServer(outcome, list) ==
    /\ popup.pc = "fetch"
    /\ popup.fetches < MaxFetches
    /\ popup' = [popup EXCEPT !.fetches = @ + 1,
                              !.pc = IF outcome = "ok" THEN "store" ELSE "done",
                              !.list = IF outcome = "ok" THEN list ELSE <<>>]
    /\ UNCHANGED <<popupFrame, recordings, localRecordings>>

\* the server's list replaces `recordings`, then this.loadRecordings() is
\* called again; a rejected write lands in the catch block
fetchRecordingsFromServer_set(stored) ==
    /\ popup.pc = "store"
    /\ IF stored
       THEN /\ recordings' = popup.list
            /\ popup' = [popup EXCEPT !.pc = "load", !.list = <<>>]
       ELSE /\ popup' = [popup EXCEPT !.pc = "done", !.list = <<>>]
            /\ UNCHANGED recordings
    /\ UNCHANGED <<popupFrame, localRecordings>>

\* the popup is opened over the persisted storage and calls loadRecordings once
InitPopup ==
    /\ isRecording = FALSE /\ isPaused = FALSE /\ startTime = NULL /\ pausedTime = 0
    /\ offscreen = FALSE /\ now = 1
    /\ procs = [p \in Procs |-> IdleProc]
    /\ hprocs = [h \in HProcs |-> IdleHProc]
    /\ outbox = <<>> /\ cmds = <<>> /\ capture = "inactive" /\ captureSeq = 0
    /\ inbox = <<>> /\ server = <<>>
    /\ recordings \in ServerLists
    /\ localRecordings \in StoredLocal
    /\ ghost = Ghost0(0, TRUE)
    /\ notifications = <<>> /\ badge = "" /\ bcast = <<>> /\ tabLog = <<>>
    /\ syncs = [s \in SyncProcs |-> IdleSync]
    /\ env = Env("background")
    /\ popup \in {[ClosedPopup EXCEPT !.pc = "load", !.authToken = t] : t \in BOOLEAN}

NextPopup ==
    \/ \E read \in BOOLEAN : loadRecordings(read)
    \/ \E outcome \in {"ok", "notok", "throw"}, list \in ServerLists :
            fetchRecordingsFromServer(outcome, list)
    \/ \E stored \in BOOLEAN : fetchRecordingsFromServer_set(stored)

SpecPopup == InitPopup /\ [][NextPopup]_vars

\* ====================================================================
\*  RecorderWidget of src/content/content-script.js
\* ====================================================================

\* RecorderWidget.setupMessageListener: the widget's (isRecording, isPaused)
\* after message msg; updateRecordingState assigns both fields
WidgetOnMessage(w, msg) ==
    CASE msg.action = "RECORDING_STARTED" -> [isRecording |-> TRUE, isPaused |-> FALSE]
      [] msg.action = "RECORDING_STOPPED" -> [isRecording |-> FALSE, isPaused |-> FALSE]
      [] msg.action = "RECORDING_PAUSED" -> [isRecording |-> TRUE, isPaused |-> TRUE]
      [] msg.action = "RECORDING_RESUMED" -> [isRecording |-> TRUE, isPaused |-> FALSE]
      [] OTHER -> w

\* the widget of a tab after the messages of log that were delivered to it
RECURSIVE WidgetAfter(_, _, _)
WidgetAfter(w, tab, log) ==
    IF log = <<>> THEN w
    ELSE WidgetAfter(IF Head(log).tab = tab /\ Head(log).ok
                     THEN WidgetOnMessage(w, Head(log).msg) ELSE w,
                     tab, Tail(log))

\* RecorderWidget of a tab: constructed while the coordinator was Idle
\* (checkRecordingStatus found no recording), then updated by the broadcasts
RecorderWidget(tab) ==
    WidgetAfter([isRecording |-> FALSE, isPaused |-> FALSE], tab, tabLog)

\* ====================================================================
\*  Properties
\* ====================================================================

\* the state of the transition table that (isRecording, isPaused) stands for
StatusName ==
    CASE ~isRecording /\ ~isPaused -> "Idle"
      [] isRecording /\ ~isPaused -> "Recording"
      [] isRecording /\ isPaused -> "Paused"
      [] OTHER -> "Undefined"

\* the actions of the commands the Capture Surface has received, in order
CmdActions == [i \in 1..Len(cmds) |-> cmds[i].action]

AllRecords == recordings \o localRecordings

\* C1: a start request received while the session is Recording or Paused is
\* rejected and leaves isRecording, isPaused and startTime exactly as they were.
C1_RejectedStartKeepsSession ==
    [][(isRecording /\ \E p \in Procs, o \in Options : startRecording_guard(p, o))
        => UNCHANGED <<isRecording, isPaused, startTime>>]_vars

\* C2: of two start requests handled at the same time at most one gets through:
\* the Capture Surface never receives the start command of both.
StartReceived(p) ==
    procs[p].op = "start" /\ procs[p].pc = "resp" /\ procs[p].res \in {"ok", "fail"}

C2_OneStartCommand ==
    \A p, q \in Procs : p # q => ~(StartReceived(p) /\ StartReceived(q))

\* C3: a start with includeScreen=false and includeAudio=false is refused: no
\* start command with these options ever reaches the Capture Surface.
C3_InvalidOptionsNotSent ==
    \A i \in 1..Len(cmds) : cmds[i] # Cmd("START_CAPTURE", NoOptions)

\* C4: with requests processed one at a time and every Capture Surface command
\* succeeding, the session is Idle, Recording or Paused and getStatus() shows the
\* state the transition table gives to the last accepted request.
C4_StatusIsLastAccepted ==
    (InFlight = {} /\ ~ghost.overlap /\ ~ghost.cmdFailed)
        => /\ StatusName \in {"Idle", "Recording", "Paused"}
           /\ StatusName = ghost.accepted

\* C5: pause, resume and stop requested while Idle are rejected and leave
\* isRecording, isPaused, startTime and pausedTime unchanged.
C5_RejectedInIdleKeepsSession ==
    [][(~isRecording /\ \E p \in Procs : \/ stopRecording_guard(p)
                                        \/ pauseRecording_guard(p)
                                        \/ resumeRecording_guard(p))
        => UNCHANGED sessionVars]_vars

\* C6: in the scenario start({screen, audio}), pause, resume, stop, each accepted,
\* getStatus shows Recording with startTime set, then Paused, then Recording,
\* then Idle, and the Capture Surface has received exactly one start, one pause,
\* one resume and one stop command, in that order.
C6_Scenario ==
    /\ ghost.scen = 2 => /\ getStatus.isRecording /\ ~getStatus.isPaused
                         /\ getStatus.startTime # NULL
                         /\ CmdActions = <<"START_CAPTURE">>
    /\ ghost.scen = 4 => /\ getStatus.isRecording /\ getStatus.isPaused
                         /\ CmdActions = <<"START_CAPTURE", "PAUSE_CAPTURE">>
    /\ ghost.scen = 6 => /\ getStatus.isRecording /\ ~getStatus.isPaused
                         /\ CmdActions = <<"START_CAPTURE", "PAUSE_CAPTURE",
                                           "RESUME_CAPTURE">>
    /\ ghost.scen = 8 => /\ ~getStatus.isRecording /\ ~getStatus.isPaused
                         /\ CmdActions = <<"START_CAPTURE", "PAUSE_CAPTURE",
                                           "RESUME_CAPTURE", "STOP_CAPTURE">>

\* the whole scenario has run: the stop was answered with success
C6_Witness == ghost.scen = 8

\* C7: when establishing the Capture Surface fails during startRecording, the
\* manager ends Idle: after a single start request whose offscreen document or
\* start command failed, and nothing still in flight, isRecording is false.
C7_FailedStartEndsIdle ==
    (ghost.requests = 1 /\ ghost.cmdFailed /\ InFlight = {} /\ outbox = <<>>
        /\ inbox = <<>>) => ~isRecording

\* C8: start succeeds, then the Capture Surface sends captureError: afterwards
\* the coordinator is Idle, the badge is cleared, the tabs were last told
\* isRecording=false, no record was stored and exactly one error notification
\* was created.
C8_CaptureError ==
    (ghost.requests = 1 /\ ghost.captureErrors = 1 /\ inbox = <<>>)
        => /\ ~isRecording
           /\ badge = ""
           /\ bcast # <<>>
           /\ bcast[Len(bcast)] = Msg("updateRecordingStatus", FALSE)
           /\ recordings = <<>>
           /\ localRecordings = <<>>
           /\ notifications = <<"Recording Error">>

\* the captureError of the only start has been handled
C8_Witness ==
    /\ ghost.requests = 1 /\ ghost.captureErrors = 1 /\ inbox = <<>>
    /\ cmds = <<Cmd("startCapture", BothOptions)>>

\* C9: the duration written into the record equals the time from startTime to
\* the stop minus the time spent Paused (stated for the first capture).
C9_DurationIsElapsedMinusPaused ==
    (captureSeq = 1 /\ ghost.expected # NULL)
        => \A i \in 1..Len(AllRecords) : AllRecords[i].duration = ghost.expected

\* C10: when the upload of a completed recording fails, completion handling ends
\* with exactly one new record at the head of localRecordings, with isLocal,
\* needsSync and the payload, and with nothing added to recordings.
C10_FailedUploadStoredLocally ==
    [][\A h \in HProcs :
        (hprocs[h].pc = "setLocalRecordings" /\ hprocs'[h].pc = "idle")
            => /\ localRecordings' # <<>>
               /\ Len(localRecordings') = Min(Len(localRecordings) + 1, BgLocalCap)
               /\ localRecordings'[1].isLocal /\ localRecordings'[1].needsSync
               /\ localRecordings'[1].blob = hprocs[h].blob
               /\ recordings' = recordings]_vars

\* the result of the syncPendingRecordings call that returned last
LastSyncResult(g) == g.syncResults[Len(g.syncResults)]

\* positions of list whose record is marked synced
SyncedIdx(list) == {i \in 1..Len(list) : ~list[i].needsSync}

\* C11: StorageManager.syncPendingRecordings over N pending records of which K
\* uploads succeed returns {success:true, synced:K}; exactly those K records
\* become needsSync=false and are in `recordings`, the other N-K stay in
\* localRecordings unmodified, needsSync=true, with their payload.  Stated for
\* a call that runs alone and whose write-back of localRecordings succeeds.
C11_SyncMovesUploaded ==
    [][\A s \in SyncProcs :
        (/\ env.impl = "popup" /\ ghost.limit = 0 /\ ~ghost.syncOverlap
         /\ ghost.delCalls = 0
         /\ syncs[s].pc = "set" /\ syncs'[s].pc = "idle"
         /\ LastSyncResult(ghost').success)
        => /\ LastSyncResult(ghost').synced = syncs[s].uploaded
           /\ Cardinality(SyncedIdx(localRecordings') \ SyncedIdx(localRecordings))
                = syncs[s].uploaded
           /\ \A i \in 1..Len(localRecordings') :
                IF localRecordings'[i].needsSync
                THEN localRecordings'[i] = localRecordings[i]
                ELSE \E j \in 1..Len(recordings') :
                        recordings'[j].id = localRecordings'[i].id]_vars

\* C12: two overlapping invocations of syncPendingRecordings never upload the
\* same pending record twice: over both invocations no record id has two
\* successful uploads.
C12_NoDoubleUpload ==
    ghost.syncOverlap =>
        \A i, j \in 1..Len(ghost.syncUploads) :
            (i < j /\ ghost.syncUploads[i].ok /\ ghost.syncUploads[j].ok)
                => ghost.syncUploads[i].id # ghost.syncUploads[j].id

\* C13: after any sequence of completion handling, syncPendingRecordings and
\* deleteRecording, no id occurs in both `recordings` and `localRecordings`.
C13_CollectionsDisjoint ==
    \A i \in 1..Len(recordings), j \in 1..Len(localRecordings) :
        recordings[i].id # localRecordings[j].id

\* C14: in every persisted state no record has needsSync=false while it still
\* carries its payload: the payload is dropped in the write that marks the
\* record synced.
C14_SyncedHasNoPayload ==
    \A i \in 1..Len(AllRecords) : ~AllRecords[i].needsSync => AllRecords[i].blob = 0

\* a local-fallback record has been synced and written back to localRecordings
C14_Witness ==
    \E i \in 1..Len(localRecordings) :
        /\ ~localRecordings[i].needsSync
        /\ localRecordings[i].origin # 0
        /\ localRecordings[i].id[1] = "srv"

\* a step of the loop over the pending records
InLoop(sp) == sp.pc \in {"upload", "addGet", "addSet"}

C16_StopRunsToCompletion ==
    [][\A h \in HProcs :
        ghost.quiet =>
            /\ (hprocs[h].pc = "query" /\ hprocs'[h].pc # "query")
                    => hprocs'[h].pc = "upload"
            /\ (/\ hprocs[h].pc \in {"setRecordings", "setLocalRecordings"}
                /\ hprocs'[h].pc = "idle"
                /\ notifications'[Len(notifications')] # "Recording Error")
                    => Len(AllRecords') = Len(AllRecords) + 1]_vars

\* the notifications that announce how a recording ended
TerminalTitles == {"Recording Saved", "Recording Saved Locally", "Recording Error"}
TermCount(seq) == Cardinality({i \in 1..Len(seq) : seq[i] \in TerminalTitles})

\* C17: every path through handleRecordingData, handleRecordingComplete and the
\* captureError / recordingError handlers creates exactly one terminal
\* notification: a step creates as many of them as it finishes completion
\* handlers and handles error messages, and no other step creates any.
C17_OneNotificationPerOutcome ==
    [][TermCount(notifications') - TermCount(notifications)
        = Cardinality({h \in HProcs : hprocs[h].pc # "idle" /\ hprocs'[h].pc = "idle"})
          + (IF /\ inbox # <<>>
                /\ inbox' = Tail(inbox)
                /\ Head(inbox).type \in {"captureError", "recordingError"}
             THEN 1 ELSE 0)]_vars

\* a recording ended in the local fallback and another outcome was an error
C17_Witness ==
    /\ \E i \in 1..Len(notifications) : notifications[i] = "Recording Saved Locally"
    /\ \E i \in 1..Len(notifications) : notifications[i] = "Recording Error"

\* the session fields the transition that broadcasts m has set
SessionAfter(m) ==
    CASE m.action = "RECORDING_STARTED" -> isRecording' /\ ~isPaused'
      [] m.action = "RECORDING_PAUSED" -> isPaused'
      [] m.action = "RECORDING_RESUMED" -> ~isPaused'
      [] m.action = "RECORDING_STOPPED" -> ~isRecording' /\ ~isPaused'
      [] m.action = "updateRecordingStatus" ->
            isRecording' = m.data \/ ghost'.logouts > ghost.logouts

\* the result of the transition that broadcasts m: the pause-capable build
\* broadcasts in the success path of a request and answers success; the other
\* build goes on to send startCapture after it broadcast that recording is on
ResultAfter(m) ==
    CASE m.action = "RECORDING_STARTED" -> ghost'.accepted = "Recording"
      [] m.action = "RECORDING_PAUSED" -> ghost'.accepted = "Paused"
      [] m.action = "RECORDING_RESUMED" -> ghost'.accepted = "Recording"
      [] m.action = "RECORDING_STOPPED" -> ghost'.accepted = "Idle"
      [] m.action = "updateRecordingStatus" ->
            m.data => \E p \in Procs : procs'[p].pc = "notify"

\* C18: in notifyAllTabs and notifyTabsRecordingStatus a rejected
\* chrome.tabs.sendMessage for one tab is swallowed: each broadcast is sent to
\* every tab of the queried list, in order, reaching every tab that listens, and
\* the transition that broadcasts has set the session all the same.
C18_TabFailureSwallowed ==
    [][bcast' # bcast =>
        LET m == bcast'[Len(bcast')]
            sent == SubSeq(tabLog', Len(tabLog) + 1, Len(tabLog'))
        IN  /\ Len(sent) = MaxTabs
            /\ \A t \in Tabs :
                    sent[t] = [tab |-> t, msg |-> m, ok |-> t \in env.listening]
            /\ SessionAfter(m)
            /\ ResultAfter(m)]_vars

\* a broadcast was rejected by tab 1 and still delivered to tab 2
C18_Witness ==
    /\ Len(tabLog) >= MaxTabs
    /\ ~tabLog[1].ok
    /\ tabLog[2].ok /\ tabLog[2].msg = tabLog[1].msg

\* the first n elements of a sequence
Take(seq, n) == SubSeq(seq, 1, Min(Len(seq), n))

\* the cap of localRecordings in the build that runs
LocalCapOf == IF env.impl = "popup" THEN LocalCap ELSE BgLocalCap

SyncReturns(k) ==
    /\ Len(ghost.syncResults) = k - 1
    /\ Len(ghost'.syncResults) = k
    /\ ghost.limit = 0
    /\ ghost.delCalls = 0
    /\ ~ghost.syncOverlap

\* C20: end to end. The local fallback leaves one more local record, with
\* payload and needsSync; a sync call that finds this one pending record and
\* uploads it returns synced = 1 and leaves it with needsSync = FALSE,
\* isLocal = FALSE and no payload; the call after it returns synced = 0 and
\* uploads nothing.
C20_FallbackThenSync ==
    [][/\ notifications' = Append(notifications, "Recording Saved Locally") =>
            /\ Len(localRecordings') = Min(Len(localRecordings) + 1, LocalCapOf)
            /\ localRecordings'[1].needsSync
            /\ localRecordings'[1].isLocal
            /\ localRecordings'[1].blob # 0
       /\ (SyncReturns(1) /\ Len(localRecordings) = 1
                /\ ghost'.syncResults[1].n = 1 /\ ghost'.syncResults[1].uploaded = 1) =>
            /\ ghost'.syncResults[1].success
            /\ ghost'.syncResults[1].synced = 1
            /\ Len(localRecordings') = 1
            /\ ~localRecordings'[1].needsSync
            /\ ~localRecordings'[1].isLocal
            /\ localRecordings'[1].blob = 0
       /\ (SyncReturns(2) /\ Len(localRecordings) = 1
                /\ ghost.syncResults[1].n = 1 /\ ghost.syncResults[1].uploaded = 1) =>
            /\ ghost'.syncResults[2].synced = 0
            /\ ghost'.syncResults[2].uploaded = 0]_vars

\* C21: while the Capture Surface command of an accepted stop, pause or resume
\* is still in flight, getStatus already reports the state the request leads
\* to: Idle for stop, Paused for pause, Recording for resume.
C21_StatusSetOnAcceptance ==
    \A p \in Procs :
        procs[p].pc = "sent" =>
            /\ procs[p].op = "stop" => ~getStatus.isRecording /\ ~getStatus.isPaused
            /\ procs[p].op = "pause" => getStatus.isRecording /\ getStatus.isPaused
            /\ procs[p].op = "resume" => getStatus.isRecording /\ ~getStatus.isPaused

\* C22: in the pause-capable RecordingManager an Idle session (isRecording
\* FALSE) has no startTime, and getStatus reports none.
C22_IdleHasNoStartTime ==
    ~isRecording => startTime = NULL /\ getStatus.startTime = NULL

\* C23: every recordingComplete message the service worker of the pause-capable
\* build takes in starts RecordingManager.handleRecordingData on its artifact.
C23_ArtifactReachesHandler ==
    [][(/\ env.impl = "popup"
        /\ inbox # <<>>
        /\ inbox' = Tail(inbox)
        /\ Head(inbox).type = "recordingComplete")
        => \E h \in HProcs : /\ hprocs[h].pc = "idle"
                             /\ hprocs'[h].pc = "query"
                             /\ hprocs'[h].blob = Head(inbox).blob]_vars

\* C24: when syncPendingRecordings of src/background.js returns success, every
\* record it uploaded and marked needsSync = FALSE, isLocal = FALSE is also in
\* the synced collection `recordings`.
C24_BgSyncInsertsIntoRecordings ==
    [][(/\ env.impl = "background"
        /\ Len(ghost'.syncResults) = Len(ghost.syncResults) + 1
        /\ LastSyncResult(ghost').success
        /\ LastSyncResult(ghost').uploaded > 0)
        => \A i \in 1..Len(localRecordings') :
                (~localRecordings'[i].needsSync /\ ~localRecordings'[i].isLocal)
                    => \E j \in 1..Len(recordings') :
                            recordings'[j].id = localRecordings'[i].id]_vars

\* the ids held by a collection
Ids(list) == {list[i].id : i \in 1..Len(list)}

\* C25: a record of localRecordings with needsSync = TRUE is still there after
\* every step, unless the step is the write-back of a sync call that uploaded
\* it successfully or a step of a deleteRecording call for its id.
C25_PendingLeavesOnlyBySyncOrDelete ==
    [][\A i \in 1..Len(localRecordings) :
        localRecordings[i].needsSync =>
            \/ localRecordings[i].id \in Ids(localRecordings')
            \/ \E s \in SyncProcs :
                    /\ syncs[s].op = "sync"
                    /\ syncs[s].pc = "set"
                    /\ syncs'[s].pc = "idle"
                    /\ \E u \in 1..Len(ghost.syncUploads) :
                            /\ ghost.syncUploads[u].id = localRecordings[i].id
                            /\ ghost.syncUploads[u].ok
            \/ \E s \in SyncProcs :
                    /\ syncs[s].op = "delete"
                    /\ syncs[s].id = localRecordings[i].id
                    /\ syncs'[s] # syncs[s]]_vars

\* C26: when completion handling of src/background.js ends its local fallback
\* without the record persisted, the outcome it announces is 'Recording Error',
\* not 'Recording Saved Locally', and the session fields are as they were.
C26_BgStorageFailureSurfaced ==
    [][\A h \in HProcs :
        (/\ env.impl = "background"
         /\ hprocs[h].pc = "setLocalRecordings"
         /\ hprocs'[h].pc = "idle"
         /\ localRecordings' = localRecordings)
            => /\ notifications' = Append(notifications, "Recording Error")
               /\ UNCHANGED sessionVars]_vars

\* a request is answered in the step it arrives in, by its guard: no handler
\* is left awaiting and no command is sent to the Capture Surface
GuardRejects ==
    /\ ghost'.requests = ghost.requests + 1
    /\ ghost'.logouts = ghost.logouts
    /\ procs' = procs
    /\ outbox' = outbox

\* C27: a guard rejection sends no broadcast to any tab and leaves the badge.
C27_RejectionIsLocal ==
    [][GuardRejects => /\ bcast' = bcast
                       /\ tabLog' = tabLog
                       /\ badge' = badge]_vars

\* C28: the listener of src/background.js handles and answers every request
\* whose action is startRecording, stopRecording, getRecordingStatus,
\* syncRecordings or logout, with target:'background' and with no target: no
\* such request has been left without a call of sendResponse.
C28_RequestsAnsweredWithOrWithoutTarget == ~ghost.unanswered

\* C29: records with isLocal = FALSE are those that carry a server id; when
\* BackgroundService.deleteRecording has removed the record with the id asked
\* for, it issues ApiService.deleteRecording(id) if that record was stored with
\* isLocal = FALSE, and no remote delete if it was stored with isLocal = TRUE.
C29_RemoteDeleteForSyncedOnly ==
    [][/\ \A i \in 1..Len(AllRecords) :
            AllRecords[i].isLocal <=> AllRecords[i].id[1] = "local"
       /\ \A s \in SyncProcs :
            (syncs[s].pc = "lookup" /\ syncs[s].ret = "true" /\ syncs'[s].pc = "idle")
                => ghost'.apiDeletes =
                        IF syncs[s].id[1] = "local" THEN ghost.apiDeletes
                        ELSE Append(ghost.apiDeletes, syncs[s].id)]_vars

\* C30: when StorageManager.deleteRecording(id) returns true, no record with
\* that id is left in `recordings` or in `localRecordings`; the step in which
\* it returns false changes neither collection.
C30_DeleteRemovesEveryCopy ==
    [][\A s \in SyncProcs :
        (syncs[s].op = "delete" /\ syncs[s].pc # "lookup" /\ syncs'[s].pc = "lookup")
            => IF syncs'[s].ret = "true"
               THEN syncs[s].id \notin Ids(recordings') \cup Ids(localRecordings')
               ELSE UNCHANGED <<recordings, localRecordings>>]_vars

\* C31: in the pause-capable RecordingManager a paused session is a recording
\* session, also when the commands of overlapping requests complete in
\* another order than the requests were accepted.
C31_PausedImpliesRecording == isPaused => isRecording

\* handler h ends in this step
HEnds(h) == hprocs[h].pc # "idle" /\ hprocs'[h].pc = "idle"

\* C32: when handleRecordingData ends for an artifact while a capture started
\* after that artifact's is being recorded, the session is left as it is:
\* Recording, with the newer startTime.
C32_HandlerKeepsNewerSession ==
    [][\A h \in HProcs :
        (HEnds(h) /\ env.impl = "popup" /\ isRecording /\ captureSeq > hprocs[h].blob)
            => /\ isRecording'
               /\ isPaused' = isPaused
               /\ startTime' = startTime]_vars

\* C33: in src/background.js every record of a recording made in this run
\* carries the startTime its session had when its capture began, also when a
\* newer session was started before its artifact was handled.
C33_RecordCarriesOwnStartTime ==
    \A i \in 1..Len(AllRecords) :
        (env.impl = "background" /\ AllRecords[i].origin \in 1..Len(ghost.started))
            => AllRecords[i].startTime = ghost.started[AllRecords[i].origin]

\* the artifacts the Remote API has received
Uploaded == {server[i] : i \in 1..Len(server)}

\* C34: no recording that the Remote API has received is kept in
\* localRecordings as a record with needsSync = TRUE, waiting for an upload.
C34_UploadedIsNotPending ==
    \A i \in 1..Len(localRecordings) :
        localRecordings[i].needsSync => localRecordings[i].origin \notin Uploaded

\* C35: in src/background.js every updateRecordingStatus broadcast carries the
\* value isRecording has when it is sent; no broadcast says FALSE while the
\* coordinator is recording.
C35_BroadcastCarriesIsRecording ==
    [][(env.impl = "background" /\ bcast' # bcast)
        => bcast'[Len(bcast')] = Msg("updateRecordingStatus", isRecording')]_vars

\* the Capture Surface is capturing and no stop command is on its way
LiveCapture ==
    /\ capture = "recording"
    /\ \A i \in 1..Len(outbox) : outbox[i].action # "stopCapture"

\* C36: in src/background.js a stopRecording request that arrives while the
\* Capture Surface has a live capture is accepted: it sends stopCapture.
C36_LiveCaptureCanBeStopped ==
    [][(env.impl = "background" /\ LiveCapture /\ \E p \in Procs : bg_stopRecording(p))
        => outbox' = Append(outbox, Cmd("stopCapture", NoOptions))]_vars

\* no request is in flight, no artifact is waiting or being handled; every
\* broadcast is delivered in the step that sends it
Quiescent ==
    /\ \A p \in Procs : procs[p].pc = "idle"
    /\ \A h \in HProcs : hprocs[h].pc = "idle"
    /\ inbox = <<>>

\* C37: once nothing is pending, the RecorderWidget of every tab that listens
\* shows the (isRecording, isPaused) that getStatus reports.
C37_WidgetsMatchStatus ==
    (env.impl = "popup" /\ Quiescent) =>
        \A tab \in env.listening :
            /\ RecorderWidget(tab).isRecording = getStatus.isRecording
            /\ RecorderWidget(tab).isPaused = getStatus.isPaused

\* C38: one call of loadRecordings causes at most one fetch: after the server
\* list is stored, the refresh of the display does not fetch again.
C38_OneFetchPerLoad == popup.fetches <= 1

====
